---- MODULE Spec2Model ----
(***************************************************************************)
(* Model of src/scripts/main.js: the blog-post renderer.                   *)
(*                                                                         *)
(* The file holds two copies of the script.  Lines 1-229 are the first     *)
(* definition (date detection in adjustReplacement, the "-preview" lookup  *)
(* in replaceSlots, expandablePosts); lines 231-389 are the second         *)
(* definition (no date detection, no missing-field guard, no preview, no   *)
(* expandablePosts).  The variable `version` says which copy is running.   *)
(*                                                                         *)
(* Strings are sequences of one-character strings.  Slot and field names   *)
(* are sequences of name tokens, the token "-preview" standing for that    *)
(* literal suffix.  JavaScript values are records [t, s, kids]: t is the   *)
(* kind, s the characters of a string, kids the elements of an array, the  *)
(* children of a DOM node, or the one value a producer function returns.   *)
(***************************************************************************)
EXTENDS Naturals, Integers, Sequences, FiniteSets, TLC

\* ------------------------------------------------------------------ bounds
MaxStrLen == 5      \* longest string given to generatePreview
MaxArrLen == 2      \* longest array given to adjustReplacement
MaxDepth  == 2      \* deepest nesting of arrays and producers
MaxSlots  == 2      \* most <slot> elements in the template
MaxPosts  == 2      \* most entries in the posts array

\* --------------------------------------------------------------- constants
\* XMLHttpRequest.readyState values
OPENED           == "OPENED"
HEADERS_RECEIVED == "HEADERS_RECEIVED"
LOADING          == "LOADING"
DONE             == "DONE"

Ellipsis == "U+2026"    \* the single character "…"
Newline  == "\n"
Period   == "."
Digits   == {"2"}

\* ------------------------------------------------------------------ values
Val(t, s, kids) == [t |-> t, s |-> s, kids |-> kids]
Undefined   == Val("undefined", <<>>, <<>>)
Null        == Val("null", <<>>, <<>>)
Num         == Val("number", <<>>, <<>>)      \* a non-zero number such as 5
PlainObject == Val("object", <<>>, <<>>)      \* {} : not iterable, no length
DomNode     == Val("node", <<>>, <<>>)        \* an instance of Node built upstream
Str(s)      == Val("string", s, <<>>)
Arr(kids)   == Val("array", <<>>, kids)
Fn(v)       == Val("function", <<>>, <<v>>)   \* a producer whose call returns v
Fragment(kids) == Val("fragment", <<>>, kids) \* a DocumentFragment
Paragraph(s, kids) == Val("p", s, kids)       \* a <p> element

\* typeof, as JavaScript reports it
typeof(v) ==
  CASE v.t = "undefined" -> "undefined"
    [] v.t = "string"    -> "string"
    [] v.t = "number"    -> "number"
    [] v.t = "function"  -> "function"
    [] OTHER             -> "object"

\* !v, for the kinds of posts value modelled: undefined, null and the number 0
\* (kind "zero") are falsy
Falsy(v) == v.t \in {"undefined", "null", "zero"}

\* ----------------------------------------------------------------- results
\* What a call produced: its value, the console.error calls it made, and the
\* exception that escaped it ("none" when it returned).
Ret(v, log, thrown) == [v |-> v, log |-> log, thrown |-> thrown]
LogEntry(msg, name) == [msg |-> msg, name |-> name]

\* ----------------------------------------------------------------- strings
RECURSIVE IndexOfFrom(_, _, _)
\* str.indexOf(c, from), 1-based; 0 stands for -1
IndexOfFrom(s, c, from) ==
  IF from > Len(s) THEN 0
  ELSE IF s[from] = c THEN from
  ELSE IndexOfFrom(s, c, from + 1)

\* str.substring(0, end) for a 1-based exclusive end position
SubstringTo(s, end) == SubSeq(s, 1, end - 1)

RECURSIVE split(_)
\* str.split("\n")
split(s) ==
  LET i == IndexOfFrom(s, Newline, 1) IN
  IF i = 0 THEN <<s>>
  ELSE <<SubstringTo(s, i)>> \o split(SubSeq(s, i + 1, Len(s)))

HasDigit(s) == \E i \in 1..Len(s) : s[i] \in Digits
AllDigits(s) == \A i \in 1..Len(s) : s[i] \in Digits
RECURSIVE DigitsOf(_)
DigitsOf(s) ==
  IF s = <<>> THEN <<>>
  ELSE (IF Head(s) \in Digits THEN <<Head(s)>> ELSE <<>>) \o DigitsOf(Tail(s))

VARIABLES
  version,        \* 1: the definitions of lines 1-229; 2: those of lines 231-389
  legacyDates,    \* whether the engine's Date.parse accepts non-ISO digit strings
  document,       \* [hasTemplate, hasRoot, template]: what querySelector finds
  server,         \* [status, body]: what the server answers with
  readyState,     \* dataRequest.readyState
  status,         \* dataRequest.status
  responseText,   \* dataRequest.responseText
  outcome,        \* how the request ended: "pending", "loaded", "timeout", "error"
  console,        \* the console.error calls made so far
  handlerError,   \* the exception that escaped the readystatechange listener
  calls,          \* how many times createPosts was called
  rootChildren,   \* the clones appended to the POST_ROOT element
  built,          \* the clones replaceSlots worked on in the last createPosts call
  wired,          \* expandablePosts has added the click listeners
  expandedArticle,\* index into rootChildren of the expanded article, 0 for null
  lastClicked,    \* history: index of the article clicked last, 0 for none
  everClicked,    \* history: the articles clicked so far
  pc,             \* position of a direct call of a function: "call" or "return"
  arg,            \* the argument of that call
  ret             \* its result

vars == <<version, legacyDates, document, server, readyState, status,
          responseText, outcome, console, handlerError, calls, rootChildren,
          built, wired, expandedArticle, lastClicked, everClicked, pc, arg, ret>>

\* ------------------------------------------------------------------- dates
\* Date.parse(str).  A string of exactly four digits is the ECMAScript date-time
\* format YYYY and every engine accepts it.  Any other string holding a digit is
\* outside that format: whether it parses is the engine's choice (legacyDates).
\* A string without a digit is NaN everywhere.
DateParse(str) ==
  IF Len(str) = 4 /\ AllDigits(str) THEN [nan |-> FALSE, digits |-> str]
  ELSE IF HasDigit(str) /\ legacyDates THEN [nan |-> FALSE, digits |-> DigitsOf(str)]
  ELSE [nan |-> TRUE, digits |-> <<>>]

\* new Date(t).toLocaleString(), as an en-US rendering "1/1/<digits>, 12:00:00 AM"
toLocaleString(date) ==
  <<"1", "/", "1", "/">> \o date.digits \o <<",", " ", "12:00:00 AM">>

\* ------------------------------------------------------- adjustReplacement
LogUnrecognized == LogEntry("Cannot recognize replacement type", <<>>)
LogUnsupported  == LogEntry("replacement's object type is not supported", <<>>)

\* lines 52-57: the string is returned, or the date it parses to, formatted
formatDate(replacement, tryDate) ==
  IF tryDate.nan THEN replacement ELSE Str(toLocaleString(tryDate))

\* lines 48-58 (first definition) and 278-281 (second): the string case
adjustString(replacement) ==
  IF version = 2 THEN replacement
  ELSE formatDate(replacement, DateParse(replacement.s))

\* Array.from(replacement) for a non-null object that is no Node: the
\* elements of an array, nothing for an object with no length
ArrayFrom(replacement) ==
  IF replacement.t = "array" THEN replacement.kids ELSE <<>>

\* lines 83-88: the <p> made for one adjusted element.  Appending a
\* DocumentFragment moves its children into the <p>.
newP(adjustedRepl) ==
  IF typeof(adjustedRepl) = "string" THEN Paragraph(adjustedRepl.s, <<>>)
  ELSE IF adjustedRepl.t = "fragment" THEN Paragraph(<<>>, adjustedRepl.kids)
  ELSE Paragraph(<<>>, <<adjustedRepl>>)

RECURSIVE adjustReplacement(_), adjustElements(_, _, _, _), adjustElement(_, _, _, _, _)

\* lines 79-96: the loop body, adjustedRepl being the adjusted element i
adjustElement(replArray, i, pars, log, adjustedRepl) ==
  IF adjustedRepl.thrown # "none"
  THEN Ret(Undefined, log \o adjustedRepl.log, adjustedRepl.thrown)
  ELSE IF typeof(adjustedRepl.v) = "undefined"
  THEN Ret(Undefined, log \o adjustedRepl.log, "none")
  ELSE adjustElements(replArray, i + 1, Append(pars, newP(adjustedRepl.v)),
                      log \o adjustedRepl.log)

\* lines 77-98: the loop over replArray, from element i on
adjustElements(replArray, i, pars, log) ==
  IF i > Len(replArray) THEN Ret(Fragment(pars), log, "none")
  ELSE adjustElement(replArray, i, pars, log, adjustReplacement(replArray[i]))

\* lines 70-98
adjustArray(replArray) ==
  IF Len(replArray) = 0 THEN Ret(Undefined, <<LogUnsupported>>, "none")
  ELSE adjustElements(replArray, 1, <<>>, <<>>)

\* Array.from(null) is a TypeError
adjustReplacement(replacement) ==
  IF typeof(replacement) = "function" THEN adjustReplacement(replacement.kids[1])
  ELSE IF typeof(replacement) = "string" THEN Ret(adjustString(replacement), <<>>, "none")
  ELSE IF typeof(replacement) # "object" THEN Ret(Undefined, <<LogUnrecognized>>, "none")
  ELSE IF replacement.t = "node" THEN Ret(replacement, <<>>, "none")
  ELSE IF replacement.t = "null" THEN Ret(Undefined, <<>>, "TypeError")
  ELSE adjustArray(ArrayFrom(replacement))

\* --------------------------------------------------------- generatePreview
\* a cut that keeps the second period
cutAtSecond_keepPeriod(str, secondPeriod) ==
  IF secondPeriod = 0 THEN str
  ELSE SubstringTo(str, secondPeriod + 1) \o <<Ellipsis>>

\* lines 111-115
cutAtSecond(str, secondPeriod) ==
  IF secondPeriod = 0 THEN str
  ELSE SubstringTo(str, secondPeriod) \o <<Ellipsis>>

\* lines 107-110
cutAfterFirst(str, firstPeriod) ==
  IF firstPeriod = 0 THEN str
  ELSE cutAtSecond(str, IndexOfFrom(str, Period, firstPeriod + 1))

generatePreview(str) == cutAfterFirst(str, IndexOfFrom(str, Period, 1))

\* generatePreview(ref) for whatever value the record holds: a string goes
\* through the function; an array has indexOf but no substring; any other
\* value has no indexOf.
PeriodsIn(items) == Cardinality({i \in 1..Len(items) : items[i] = Str(<<Period>>)})
previewOf(ref) ==
  IF ref.t = "string" THEN Ret(Str(generatePreview(ref.s)), <<>>, "none")
  ELSE IF ref.t = "array" /\ PeriodsIn(ref.kids) < 2 THEN Ret(ref, <<>>, "none")
  ELSE Ret(Undefined, <<>>, "TypeError")

\* ------------------------------------------------------------ replaceSlots
\* A <slot> of the template: its name attribute and whether it carries the
\* data-nops attribute.  In a clone a slot becomes a cell: `content` is what
\* stands in its place (Undefined while the <slot> is still there) and `step`
\* records how far the loop got with it: "untouched", "missing" (no replacement
\* found), "unresolvable" (adjustReplacement returned undefined), "threw" (an
\* exception left the loop body before the replacement) or "replaced".
Slot(name, nops) == [name |-> name, nops |-> nops]
Cell(slot, step, content) ==
  [name |-> slot.name, nops |-> slot.nops, step |-> step, content |-> content]
CellRet(cell, log, thrown) == [cell |-> cell, log |-> log, thrown |-> thrown]

PreviewSuffix == "-preview"
\* slotName.match(/(.+?)-preview$/) is not null
MatchesPreview(slotName) ==
  Len(slotName) >= 2 /\ slotName[Len(slotName)] = PreviewSuffix
\* matches[1]
PreviewBase(slotName) == SubSeq(slotName, 1, Len(slotName) - 1)

\* replacements[name]
Get(replacements, name) ==
  IF name \in DOMAIN replacements THEN replacements[name] ELSE Undefined

LogNoSlot(name)      == LogEntry("Cant find replacement for slot named", name)
LogNoRef(base)       == LogEntry("Cant find replacement name referenced by slot name", base)
LogCantReplace(name) == LogEntry("Cant replace slot: field doesnt exist", name)

\* lines 149-155 and 333-339, a being what adjustReplacement gave.  In the
\* undefined branch the second console.error reads `post`, which is no
\* binding in scope of replaceSlots (createPosts declares it with const inside
\* its loop, and the script defines no global of that name): a ReferenceError
\* after the first message.
replaceWith(slot, a) ==
  IF a.thrown # "none" THEN CellRet(Cell(slot, "threw", Undefined), a.log, a.thrown)
  ELSE IF typeof(a.v) = "undefined"
  THEN CellRet(Cell(slot, "unresolvable", Undefined),
               a.log \o <<LogCantReplace(slot.name)>>, "ReferenceError")
  ELSE CellRet(Cell(slot, "replaced", a.v), a.log, "none")

\* the array of strings str.split("\n") returns
StrsOf(lines) == Arr([i \in 1..Len(lines) |-> Str(lines[i])])

\* a loop body that does not look at data-nops and always splits
substitute_alwaysSplit(slot, candidate) ==
  IF typeof(candidate) # "string"
  THEN CellRet(Cell(slot, "threw", Undefined), <<>>, "TypeError")
  ELSE replaceWith(slot, adjustReplacement(StrsOf(split(candidate.s))))

\* lines 144-148 and 328-332: split unless data-nops, then adjust.  Only a
\* string has split: any other candidate of a slot without data-nops is a
\* TypeError.
substitute(slot, candidate) ==
  IF slot.nops THEN replaceWith(slot, adjustReplacement(candidate))
  ELSE IF typeof(candidate) # "string"
  THEN CellRet(Cell(slot, "threw", Undefined), <<>>, "TypeError")
  ELSE replaceWith(slot, adjustReplacement(StrsOf(split(candidate.s))))

\* lines 137-142: the field a "-preview" slot refers to.  thrown = "continue"
\* stands for the loop's `continue`.
lookupPreview(slot, ref) ==
  IF typeof(ref) = "undefined"
  THEN Ret(Undefined, <<LogNoRef(PreviewBase(slot.name))>>, "continue")
  ELSE previewOf(ref)

\* lines 129-143 of the first definition
lookupV1(slot, replacements, replacementCandidate) ==
  IF typeof(replacementCandidate) # "undefined"
  THEN Ret(replacementCandidate, <<>>, "none")
  ELSE IF ~MatchesPreview(slot.name)
  THEN Ret(Undefined, <<LogNoSlot(slot.name)>>, "continue")
  ELSE lookupPreview(slot, Get(replacements, PreviewBase(slot.name)))

\* line 327 of the second definition: no guard, no preview
lookupV2(slot, replacements, replacementCandidate) ==
  Ret(replacementCandidate, <<>>, "none")

lookup(slot, replacements) ==
  IF version = 1 THEN lookupV1(slot, replacements, Get(replacements, slot.name))
  ELSE lookupV2(slot, replacements, Get(replacements, slot.name))

\* the rest of the loop body, c being what the lookup gave
resolve(slot, c) ==
  IF c.thrown = "continue" THEN CellRet(Cell(slot, "missing", Undefined), c.log, "none")
  ELSE IF c.thrown # "none" THEN CellRet(Cell(slot, "threw", Undefined), c.log, c.thrown)
  ELSE substitute(slot, c.v)

\* lines 128-155 and 326-339: the loop body for one slot
replaceSlot(slot, replacements) == resolve(slot, lookup(slot, replacements))

SlotsRet(cells, log, thrown) == [cells |-> cells, log |-> log, thrown |-> thrown]

RECURSIVE replaceSlotsFrom(_, _, _, _), afterSlot(_, _, _, _, _)
\* the loop goes on to slot i + 1 unless the body threw
afterSlot(cells, i, replacements, log, r) ==
  IF r.thrown # "none"
  THEN SlotsRet([cells EXCEPT ![i] = r.cell], log \o r.log, r.thrown)
  ELSE replaceSlotsFrom([cells EXCEPT ![i] = r.cell], i + 1, replacements,
                        log \o r.log)

\* the for-of loop over the slots of `node`, from slot i on
replaceSlotsFrom(cells, i, replacements, log) ==
  IF i > Len(cells) THEN SlotsRet(cells, log, "none")
  ELSE afterSlot(cells, i, replacements, log, replaceSlot(cells[i], replacements))

replaceSlots(node, replacements) == replaceSlotsFrom(node, 1, replacements, <<>>)

\* -------------------------------------------------------------- createPosts
\* The value of result.posts: t is its kind and items the records of an array.
Posts(t, items) == [t |-> t, items |-> items]
LogEmptyPosts == LogEntry("empty posts object", <<>>)
LogNoRoot     == LogEntry("Cant find root element to insert blog entries", <<>>)

\* template_node.cloneNode(true): the article with every slot in place
cloneNode(template) ==
  [i \in 1..Len(template.slots) |-> Cell(template.slots[i], "untouched", Undefined)]
Clone(template, cells) == [collapsed |-> template.collapsed, cells |-> cells]

PostsRet(inserted, made, log, thrown) ==
  [inserted |-> inserted, built |-> made, log |-> log, thrown |-> thrown]

RECURSIVE createPostsFrom(_, _, _, _), afterPost(_, _, _, _, _)
\* lines 185-186: r is what replaceSlots did to the clone of post i
afterPost(items, i, made, log, r) ==
  IF r.thrown # "none"
  THEN PostsRet(<<>>, Append(made, Clone(document.template, r.cells)),
                log \o r.log, r.thrown)
  ELSE createPostsFrom(items, i + 1, Append(made, Clone(document.template, r.cells)),
                       log \o r.log)

\* lines 183-188: the loop over posts, from post i on, then the one appendChild
createPostsFrom(items, i, made, log) ==
  IF i > Len(items) THEN PostsRet(made, made, log, "none")
  ELSE afterPost(items, i, made, log,
                 replaceSlots(cloneNode(document.template), items[i]))

\* lines 167-189.  Line 177 reads .content of what querySelector found before
\* postRoot is tested; line 183 iterates posts.
createPosts(posts) ==
  IF Falsy(posts)
  THEN PostsRet(<<>>, <<>>, <<LogEmptyPosts>>, "none")
  ELSE IF ~document.hasTemplate THEN PostsRet(<<>>, <<>>, <<>>, "TypeError")
  ELSE IF ~document.hasRoot THEN PostsRet(<<>>, <<>>, <<LogNoRoot>>, "none")
  ELSE IF posts.t # "array" THEN PostsRet(<<>>, <<>>, <<>>, "TypeError")
  ELSE createPostsFrom(posts.items, 1, <<>>, <<>>)

\* --------------------------------------------------- the request's listener
\* A response body: "empty" (no text), "invalid" (text that is no JSON), "null"
\* (the JSON text null) or "object" (a JSON object whose posts field is `posts`,
\* of kind "undefined" when the object has no such field).
Body(kind, posts) == [kind |-> kind, posts |-> posts]
NoBody == Body("empty", Posts("undefined", <<>>))

\* what the listener did: r is what createPosts did, called whether it was
\* called, thrown the exception that left the listener.  expandablePosts
\* (first definition only) runs when createPosts returned.
HandlerRet(r, called, thrown) ==
  [inserted |-> r.inserted, built |-> r.built, log |-> r.log, called |-> called,
   thrown |-> thrown,
   wired |-> version = 1 /\ called /\ thrown = "none"]
NotCalled == PostsRet(<<>>, <<>>, <<>>, "none")
afterCreate(r) == HandlerRet(r, TRUE, r.thrown)

\* lines 196-206 and 380-389: the listener, once readyState is DONE.
\* JSON.parse of text that is no JSON is a SyntaxError; .posts of null a TypeError.
onReadyStateChange(st, text) ==
  IF st = 0 \/ (st >= 200 /\ st < 400)
  THEN IF text.kind \in {"empty", "invalid"} THEN HandlerRet(NotCalled, FALSE, "SyntaxError")
       ELSE IF text.kind = "null" THEN HandlerRet(NotCalled, FALSE, "TypeError")
       ELSE afterCreate(createPosts(text.posts))
  ELSE HandlerRet(NotCalled, FALSE, "none")

\* a listener that forgets to collapse the article that was expanded
clickListener_keepsOpen(en, articles, expanded) ==
  IF expanded = en THEN [articles |-> articles, expanded |-> expanded]
  ELSE [articles |->
          [i \in 1..Len(articles) |->
             IF i = en THEN [articles[i] EXCEPT !.collapsed = FALSE]
             ELSE articles[i]],
        expanded |-> en]

\* lines 218-226: the click listener of article en
clickListener(en, articles, expanded) ==
  IF expanded = en THEN [articles |-> articles, expanded |-> expanded]
  ELSE [articles |->
          [i \in 1..Len(articles) |->
             IF i = en THEN [articles[i] EXCEPT !.collapsed = FALSE]
             ELSE IF expanded # 0 /\ i = expanded
                  THEN [articles[i] EXCEPT !.collapsed = TRUE]
                  ELSE articles[i]],
        expanded |-> en]

\* ------------------------------------------------------------------ inputs
SeqsUpTo(S, n) == UNION {[1..k -> S] : k \in 0..n}

Title   == <<"title">>
Author  == <<"author">>
TitlePreview == <<"title", PreviewSuffix>>

\* a record with the one field title, and the record with no field
Rec(v)   == [n \in {Title} |-> v]
EmptyRec == [n \in {} |-> Undefined]

\* what the page load can meet
PageTemplates ==
  {<<Slot(Title, FALSE)>>, <<Slot(Title, TRUE), Slot(Author, FALSE)>>}
PageRecords == {Rec(Str(<<"a">>)), Rec(Num), EmptyRec}
PagePosts ==
  {Posts(t, <<>>) : t \in {"undefined", "null", "zero", "number", "object"}}
    \cup {Posts("array", items) : items \in SeqsUpTo(PageRecords, MaxPosts)}
PageBodies ==
  {Body(k, Posts("undefined", <<>>)) : k \in {"empty", "invalid", "null"}}
    \cup {Body("object", p) : p \in PagePosts}
Statuses == {0, 200, 404}

\* what replaceSlots can meet: every template of at most MaxSlots slots, and
\* records whose title is absent, a string, or a value JSON can carry
SlotKinds ==
  {Slot(Title, FALSE), Slot(Title, TRUE), Slot(Author, FALSE),
   Slot(TitlePreview, FALSE)}
TitleStrings ==
  {<<"a">>, <<"a", Newline, "2", "2", "2", "2">>, <<"a", ".", "a", ".", "a">>,
   <<"a", "2", Newline>>}
SlotRecords ==
  {EmptyRec} \cup {Rec(Str(t)) : t \in TitleStrings}
    \cup {Rec(Num), Rec(Arr(<<Str(<<"a">>)>>))}

\* strings handed to generatePreview
PreviewChars == {"a", Period, Newline}
PreviewStrings == SeqsUpTo(PreviewChars, MaxStrLen)

\* values handed to adjustReplacement
Leaves == {Str(<<"a">>), Num, Null, PlainObject}
RECURSIVE ValuesAt(_)
ValuesAt(d) ==
  IF d = 0 THEN Leaves
  ELSE LET prev == ValuesAt(d - 1) IN
       prev \cup {Arr(k) : k \in SeqsUpTo(prev, MaxArrLen)}
            \cup {Fn(v) : v \in prev \cup {DomNode}}

\* -------------------------------------------------------------------- Init
\* The state once the script has run to its end: the request is open and
\* sent, the listener is registered, expandedArticle is null.
Engines == {<<1, FALSE>>, <<1, TRUE>>, <<2, FALSE>>}

InitRequest ==
  /\ readyState = OPENED
  /\ status = 0
  /\ responseText = NoBody
  /\ outcome = "pending"
  /\ console = <<>>
  /\ handlerError = "none"
  /\ calls = 0
  /\ rootChildren = <<>>
  /\ built = <<>>
  /\ wired = FALSE
  /\ expandedArticle = 0
  /\ lastClicked = 0
  /\ everClicked = {}

NoCall == pc = "idle" /\ arg = <<>> /\ ret = <<>>

Init ==
  /\ \E e \in Engines : version = e[1] /\ legacyDates = e[2]
  /\ \E t \in PageTemplates, ht \in BOOLEAN, hr \in BOOLEAN, c \in BOOLEAN :
       document = [hasTemplate |-> ht, hasRoot |-> hr,
                   template |-> [collapsed |-> c, slots |-> t]]
  /\ \E st \in Statuses, b \in PageBodies : server = [status |-> st, body |-> b]
  /\ InitRequest
  /\ NoCall

InitSlots ==
  /\ \E e \in Engines : version = e[1] /\ legacyDates = e[2]
  /\ \E t \in SeqsUpTo(SlotKinds, MaxSlots) :
       document = [hasTemplate |-> TRUE, hasRoot |-> TRUE,
                   template |-> [collapsed |-> TRUE, slots |-> t]]
  /\ \E items \in SeqsUpTo(SlotRecords, MaxPosts) :
       server = [status |-> 200, body |-> Body("object", Posts("array", items))]
  /\ InitRequest
  /\ NoCall

NoPage ==
  /\ document = [hasTemplate |-> FALSE, hasRoot |-> FALSE,
                 template |-> [collapsed |-> TRUE, slots |-> <<>>]]
  /\ server = [status |-> 0, body |-> NoBody]
  /\ InitRequest

InitPreview ==
  /\ version = 1 /\ legacyDates = FALSE
  /\ NoPage
  /\ pc = "call" /\ arg \in PreviewStrings /\ ret = <<>>

InitNormalize ==
  /\ \E e \in Engines : version = e[1] /\ legacyDates = e[2]
  /\ NoPage
  /\ pc = "call" /\ arg \in ValuesAt(MaxDepth) /\ ret = Ret(Undefined, <<>>, "none")

\* ----------------------------------------------------------------- actions
requestVars == <<readyState, status, responseText, outcome>>
pageVars == <<console, handlerError, calls, rootChildren, built, wired>>
clickVars == <<expandedArticle, lastClicked, everClicked>>
envVars == <<version, legacyDates, document, server>>
callVars == <<pc, arg, ret>>

\* the listener runs with readyState DONE
ListenerEffect(h) ==
  /\ console' = console \o h.log
  /\ handlerError' = h.thrown
  /\ calls' = calls + (IF h.called THEN 1 ELSE 0)
  /\ rootChildren' = rootChildren \o h.inserted
  /\ built' = h.built
  /\ wired' = h.wired

RunListener(st, text) == ListenerEffect(onReadyStateChange(st, text))

\* the response's headers arrive; the listener runs and does nothing
HeadersReceived ==
  /\ pc = "idle" /\ readyState = OPENED
  /\ readyState' = HEADERS_RECEIVED
  /\ status' = server.status
  /\ UNCHANGED <<responseText, outcome, pageVars, clickVars, envVars, callVars>>

\* the first bytes of the body arrive; the listener runs and does nothing
Loading ==
  /\ pc = "idle" /\ readyState = HEADERS_RECEIVED
  /\ readyState' = LOADING
  /\ UNCHANGED <<status, responseText, outcome, pageVars, clickVars, envVars, callVars>>

\* the response is complete
Load ==
  /\ pc = "idle" /\ readyState \in {HEADERS_RECEIVED, LOADING}
  /\ readyState' = DONE
  /\ responseText' = server.body
  /\ outcome' = "loaded"
  /\ RunListener(status, server.body)
  /\ UNCHANGED <<status, clickVars, envVars, callVars>>

\* the 5000 ms pass, or the connection fails: the request ends as a network
\* error, with status 0 and an empty responseText, and readystatechange fires
\* before the timeout or error event
Timeout ==
  /\ pc = "idle" /\ readyState \in {OPENED, HEADERS_RECEIVED, LOADING}
  /\ readyState' = DONE
  /\ status' = 0
  /\ responseText' = NoBody
  /\ outcome' = "timeout"
  /\ RunListener(0, NoBody)
  /\ UNCHANGED <<clickVars, envVars, callVars>>

NetworkError ==
  /\ pc = "idle" /\ readyState \in {OPENED, HEADERS_RECEIVED, LOADING}
  /\ readyState' = DONE
  /\ status' = 0
  /\ responseText' = NoBody
  /\ outcome' = "error"
  /\ RunListener(0, NoBody)
  /\ UNCHANGED <<clickVars, envVars, callVars>>

ClickEffect(c) ==
  /\ rootChildren' = c.articles
  /\ expandedArticle' = c.expanded

\* the user clicks article en
Click(en) ==
  /\ pc = "idle" /\ wired
  /\ ClickEffect(clickListener(en, rootChildren, expandedArticle))
  /\ lastClicked' = en
  /\ everClicked' = everClicked \cup {en}
  /\ UNCHANGED <<requestVars, console, handlerError, calls, built, wired,
                 envVars, callVars>>

ClickSome == \E en \in 1..Len(rootChildren) : Click(en)

\* a direct call of generatePreview(arg)
CallPreview ==
  /\ pc = "call"
  /\ ret' = generatePreview(arg)
  /\ pc' = "return"
  /\ UNCHANGED <<arg, requestVars, pageVars, clickVars, envVars>>

\* a direct call of adjustReplacement(arg, node)
CallAdjust ==
  /\ pc = "call"
  /\ ret' = adjustReplacement(arg)
  /\ pc' = "return"
  /\ UNCHANGED <<arg, requestVars, pageVars, clickVars, envVars>>

Next ==
  \/ HeadersReceived
  \/ Loading
  \/ Load
  \/ Timeout
  \/ NetworkError
  \/ ClickSome

\* the request and the rendering, without the clicks that follow
NextRender ==
  \/ HeadersReceived
  \/ Loading
  \/ Load
  \/ Timeout
  \/ NetworkError

Spec == Init /\ [][Next]_vars
SpecSlots == InitSlots /\ [][NextRender]_vars
SpecPreview == InitPreview /\ [][CallPreview]_vars
SpecNormalize == InitNormalize /\ [][CallAdjust]_vars

\* ==================================================================== claims
\* the request is over and the listener called createPosts
Rendered == readyState = DONE /\ calls = 1
posts == server.body.posts

\* ------------------------------------------------------------------------ C2
PeriodPositions(str) == {i \in 1..Len(str) : str[i] = Period}
\* the position of the second period of a string that has two
SecondPeriod(str) ==
  CHOOSE i \in PeriodPositions(str) :
    Cardinality({j \in PeriodPositions(str) : j < i}) = 1
TwoPeriods(str) == Cardinality(PeriodPositions(str)) >= 2

\* C2 as claimed: for a string with at least two periods, generatePreview
\* returns the prefix up to and including the second period, then one ellipsis.
C2_PreviewKeepsSecondPeriod ==
  (pc = "return" /\ TwoPeriods(arg)) =>
    ret = SubSeq(arg, 1, SecondPeriod(arg)) \o <<Ellipsis>>

\* C2 as amended: for a string with at least two periods, generatePreview
\* returns the prefix that ends just before the second period (the second
\* period itself is dropped), followed by exactly one ellipsis.
C2_PreviewDropsSecondPeriod ==
  (pc = "return" /\ TwoPeriods(arg)) =>
    ret = SubSeq(arg, 1, SecondPeriod(arg) - 1) \o <<Ellipsis>>

\* generatePreview("a.a.a") has returned "a.a" and the ellipsis
C2_Witness ==
  /\ pc = "return"
  /\ arg = <<"a", Period, "a", Period, "a">>
  /\ ret = <<"a", Period, "a", Ellipsis>>

\* ------------------------------------------------------------------------ C5
\* element i of the array, adjusted on its own, is undefined
ElementUnresolvable(v) ==
  typeof(adjustReplacement(v).v) = "undefined" /\ adjustReplacement(v).thrown = "none"

\* C5: adjustReplacement of an array returns undefined (and returns) when the
\* array is empty or when one of its elements adjusts to undefined, wherever
\* that element stands.
C5_ShortCircuit ==
  (pc = "return" /\ arg.t = "array") =>
    ((arg.kids = <<>> \/ \E i \in 1..Len(arg.kids) : ElementUnresolvable(arg.kids[i]))
       => (typeof(ret.v) = "undefined" /\ ret.thrown = "none"))

\* ------------------------------------------------------- the rendering pass
Intact == document.hasTemplate /\ document.hasRoot
\* the cells of every clone the pass worked on, as <<clone, slot>> pairs
Cells == {<<k, j>> \in (1..Len(built)) \X (1..Len(document.template.slots)) : TRUE}
CellAt(kj) == built[kj[1]].cells[kj[2]]
RecordAt(kj) == posts.items[kj[1]]
Reached(kj) == CellAt(kj).step # "untouched"

\* ------------------------------------------------------------------------ C1
\* C1: when a placeholder's value adjusts to undefined, that is only logged:
\* the placeholder stays, no exception leaves the pass, every other placeholder
\* of the clone and every other record of the pass is processed, and all the
\* clones are inserted.
C1_UnresolvableIsolated ==
  (Rendered /\ \E kj \in Cells : CellAt(kj).step = "unresolvable") =>
    /\ handlerError = "none"
    /\ \A kj \in Cells : CellAt(kj).step = "unresolvable" =>
         typeof(CellAt(kj).content) = "undefined"
    /\ Len(built) = Len(posts.items)
    /\ \A kj \in Cells : Reached(kj)
    /\ Len(rootChildren) = Len(posts.items)

\* ------------------------------------------------------------------------ C3
\* C3: createPosts called with a non-null posts value while the template, the
\* root element or both are missing logs a diagnostic, inserts nothing and
\* lets no exception escape.
C3_StructuralFailFast ==
  (Rendered /\ posts.t \notin {"undefined", "null"} /\ ~Intact) =>
    /\ console # <<>>
    /\ rootChildren = <<>>
    /\ handlerError = "none"

\* ------------------------------------------------------------------------ C4
\* the record has no field of the slot's name and the name is no "-preview"
\* reference to a field the record has
NoReplacement(kj) ==
  /\ CellAt(kj).name \notin DOMAIN RecordAt(kj)
  /\ \/ ~MatchesPreview(CellAt(kj).name)
     \/ PreviewBase(CellAt(kj).name) \notin DOMAIN RecordAt(kj)
MissingLogs ==
  {i \in 1..Len(console) :
     console[i].msg \in {LogNoSlot(<<>>).msg, LogNoRef(<<>>).msg}}

\* C4: a placeholder the loop reaches whose field is absent (and that is no
\* valid "-preview" reference) stays in place, is logged exactly once with the
\* missing field's name, throws nothing, and the loop goes on to the next
\* placeholder.
C4_MissingFieldSkipped ==
  Rendered =>
    /\ \A kj \in Cells : (Reached(kj) /\ NoReplacement(kj)) =>
         /\ CellAt(kj).step = "missing"
         /\ typeof(CellAt(kj).content) = "undefined"
         /\ kj[2] < Len(document.template.slots) => Reached(<<kj[1], kj[2] + 1>>)
    /\ Cardinality(MissingLogs)
         = Cardinality({kj \in Cells : Reached(kj) /\ NoReplacement(kj)})

\* ------------------------------------------------------------------------ C7
\* C7: with the template and the root element present, a posts array of n
\* records leaves exactly n clones in the root element, one per record in the
\* records' order, each the template's clone with that record's slots replaced.
C7_OneClonePerRecord ==
  (Rendered /\ Intact /\ posts.t = "array") =>
    /\ Len(rootChildren) = Len(posts.items)
    /\ \A k \in 1..Len(rootChildren) :
         rootChildren[k].cells
           = replaceSlots(cloneNode(document.template), posts.items[k]).cells

\* ------------------------------------------------------------------------ C8
\* C8: a posts value that is absent, null or no array (a number, a plain
\* object) makes createPosts log a diagnostic and return: nothing is inserted
\* and no exception escapes.  Stated for a document that has its template and
\* its root element, so that nothing but the posts value is at fault.
C8_MalformedPostsFailFast ==
  (Rendered /\ Intact /\ posts.t # "array") =>
    /\ console # <<>>
    /\ rootChildren = <<>>
    /\ handlerError = "none"

\* ------------------------------------------------------------------------ C9
\* the request timed out, failed on the network, or got an error status
FetchFailed ==
  outcome \in {"timeout", "error"} \/ (outcome = "loaded" /\ status >= 400)

\* C9: createPosts is called at most once and only once the request is DONE;
\* a timed-out or failed request neither calls it nor raises an error in the
\* listener.
C9_RendererOnceOnCompletion ==
  /\ calls <= 1
  /\ calls = 1 => readyState = DONE
  /\ FetchFailed => (calls = 0 /\ handlerError = "none")

\* ----------------------------------------------------------------------- C10
\* expandedArticle is the article clicked last (null before any click), it is
\* not collapsed, and every other article clicked before is
Selection ==
  wired =>
    /\ expandedArticle = lastClicked
    /\ lastClicked # 0 => ~rootChildren[lastClicked].collapsed
    /\ \A a \in everClicked \ {lastClicked} : rootChildren[a].collapsed
\* a step that clicks the expanded article
ReclickNoChange ==
  (wired /\ expandedArticle # 0 /\ lastClicked' = expandedArticle)
    => UNCHANGED <<rootChildren, expandedArticle>>

\* C10: once expandablePosts has wired the articles, expandedArticle is null
\* before the first click and the article clicked last after it; that article
\* is not collapsed; every other article clicked before is collapsed; and a
\* click on the expanded article changes neither the articles nor
\* expandedArticle.
C10_SingleExpanded == []Selection /\ [][ReclickNoChange]_vars

\* two articles were clicked, the second one last: it is expanded and the
\* first is collapsed again
C10_Witness ==
  /\ wired
  /\ everClicked = {1, 2}
  /\ lastClicked = 2
  /\ expandedArticle = 2
  /\ ~rootChildren[2].collapsed
  /\ rootChildren[1].collapsed

\* ------------------------------------------------------------------------ C6
\* The lines of a string, read off the positions of its newlines: line n runs
\* from just after the (n-1)-th newline to just before the n-th.
LineEnds(str) == {i \in 1..Len(str) : str[i] = Newline} \cup {0, Len(str) + 1}
NthEnd(str, n) ==
  CHOOSE x \in LineEnds(str) : Cardinality({y \in LineEnds(str) : y < x}) = n
LineCount(str) == Cardinality(LineEnds(str)) - 1
Line(str, n) == SubSeq(str, NthEnd(str, n - 1) + 1, NthEnd(str, n) - 1)

\* the string the slot of cell kj is to show, if it is one: the record's field
\* of that name, or (first definition) the preview of the field a "-preview"
\* name refers to
HasStringCandidate(kj) ==
  \/ /\ CellAt(kj).name \in DOMAIN RecordAt(kj)
     /\ RecordAt(kj)[CellAt(kj).name].t = "string"
  \/ /\ version = 1
     /\ CellAt(kj).name \notin DOMAIN RecordAt(kj)
     /\ MatchesPreview(CellAt(kj).name)
     /\ PreviewBase(CellAt(kj).name) \in DOMAIN RecordAt(kj)
     /\ RecordAt(kj)[PreviewBase(CellAt(kj).name)].t = "string"
StringCandidate(kj) ==
  IF CellAt(kj).name \in DOMAIN RecordAt(kj) THEN RecordAt(kj)[CellAt(kj).name].s
  ELSE generatePreview(RecordAt(kj)[PreviewBase(CellAt(kj).name)].s)

\* C6 as claimed: a reached placeholder whose candidate is a string is
\* replaced, without data-nops by one <p> per line whose text is exactly that
\* line, in order; with data-nops by one text value.
C6_ParagraphPerLineExact ==
  Rendered =>
    \A kj \in Cells : (Reached(kj) /\ HasStringCandidate(kj)) =>
      /\ CellAt(kj).step = "replaced"
      /\ IF CellAt(kj).nops THEN CellAt(kj).content.t = "string"
         ELSE /\ CellAt(kj).content.t = "fragment"
              /\ Len(CellAt(kj).content.kids) = LineCount(StringCandidate(kj))
              /\ \A n \in 1..LineCount(StringCandidate(kj)) :
                   CellAt(kj).content.kids[n]
                     = Paragraph(Line(StringCandidate(kj), n), <<>>)

\* what a text may become: itself; under the first definition the formatted
\* date when it is a four-digit year, and either of the two when it holds a
\* digit in any other form (the engine's Date.parse decides)
FormattedDate(text) ==
  <<"1", "/", "1", "/">> \o SelectSeq(text, LAMBDA c : c \in Digits)
     \o <<",", " ", "12:00:00 AM">>
IsYear(text) == Len(text) = 4 /\ \A i \in 1..4 : text[i] \in Digits
NoDigit(text) == \A i \in 1..Len(text) : text[i] \notin Digits
Shown(text) ==
  IF version = 2 \/ NoDigit(text) THEN {text}
  ELSE IF IsYear(text) THEN {FormattedDate(text)}
  ELSE {text, FormattedDate(text)}

\* C6 as amended: a placeholder the loop reaches whose candidate is a string
\* is replaced.  Without data-nops it becomes one <p> per line, in order; the
\* text of the n-th <p> is the n-th line, except that under the first
\* definition a line Date.parse accepts is shown as that date's
\* toLocaleString().  With data-nops the string is not split and replaces the
\* placeholder as one text value, with the same exception.
C6_ParagraphPerLine ==
  Rendered =>
    \A kj \in Cells : (Reached(kj) /\ HasStringCandidate(kj)) =>
      /\ CellAt(kj).step = "replaced"
      /\ IF CellAt(kj).nops
         THEN /\ CellAt(kj).content.t = "string"
              /\ CellAt(kj).content.s \in Shown(StringCandidate(kj))
         ELSE /\ CellAt(kj).content.t = "fragment"
              /\ Len(CellAt(kj).content.kids) = LineCount(StringCandidate(kj))
              /\ \A n \in 1..LineCount(StringCandidate(kj)) :
                   /\ CellAt(kj).content.kids[n].t = "p"
                   /\ CellAt(kj).content.kids[n].kids = <<>>
                   /\ CellAt(kj).content.kids[n].s
                        \in Shown(Line(StringCandidate(kj), n))

\* the title "a", newline, "2222" stands in a slot without data-nops as two
\* paragraphs, and in a slot with data-nops as one text
C6_Witness ==
  /\ Rendered
  /\ \E kj \in Cells :
       /\ ~CellAt(kj).nops
       /\ CellAt(kj).name = Title
       /\ RecordAt(kj) = Rec(Str(<<"a", Newline, "2", "2", "2", "2">>))
       /\ CellAt(kj).step = "replaced"
       /\ Len(CellAt(kj).content.kids) = 2
       /\ CellAt(kj).content.kids[1] = Paragraph(<<"a">>, <<>>)
  /\ \E kj \in Cells :
       /\ CellAt(kj).nops
       /\ CellAt(kj).step = "replaced"
       /\ CellAt(kj).content.t = "string"

====
